---- MODULE Spec2Model ----
(***************************************************************************)
(* The approval lifecycle engine of clawdbot-approvals (src/src/index.ts): *)
(* a flat-file record store (one JSON file per approval), an append-only   *)
(* audit log, and the operations propose / approve / deny / execute /      *)
(* approveAndExecute / batchApprove / cleanExpired / listApprovals /       *)
(* getStats over them.                                                     *)
(*                                                                         *)
(* A JSON object is a function from its present keys to their values: a    *)
(* key whose value is undefined is absent (JSON.stringify drops it).       *)
(* An id is a sequence of one-character strings.  Time is in milliseconds. *)
(***************************************************************************)
EXTENDS Integers, Sequences, FiniteSets, TLC

VARIABLES
    files,  \* the approvals directory: id |-> the record stored in <id>.json
    audit,  \* audit.jsonl: the sequence of appended entries
    ran,    \* every execSync call made so far, in order: <<record id, command>>
    now,    \* the clock read by new Date()
    calls   \* per caller process: the call it is in the middle of, with what it has read

vars == <<files, audit, ran, now, calls>>

----------------------------------------------------------------------------
(* Bounds of the model *)

MaxTime == 1        \* the clock runs over 0..MaxTime
MaxProposals == 2   \* propose is called at most this many times
MaxDraw == 1        \* Math.random() yields an index in 0..MaxDraw for the last character

(* Program constants *)

DEFAULT_EXPIRY_MS == 7200000
IdLength == 4
MsPerDay == 86400000
StatsRecent == 20
MsPerMinute == 60000

----------------------------------------------------------------------------
(* JSON objects *)

Has(r, k) == k \in DOMAIN r

Set(r, k, v) == (k :> v) @@ r

Undefined == "undefined"

\* r.k = v where v may be undefined: the key is then absent from the stored JSON
SetOpt(r, k, v) == IF v = Undefined THEN r ELSE Set(r, k, v)

\* r.k = o.f where o.f may be absent
SetFrom(r, k, o, f) == IF Has(o, f) THEN Set(r, k, o[f]) ELSE r

Null == [null |-> TRUE]

NoError == [kind |-> "none"]

----------------------------------------------------------------------------
(* Ids *)

chars == <<"A", "B", "C", "D", "E", "F", "G", "H", "J", "K", "L", "M", "N", "P", "Q", "R",
           "S", "T", "U", "V", "W", "X", "Y", "Z", "2", "3", "4", "5", "6", "7", "8", "9">>

\* draws[i] is Math.floor(Math.random() * chars.length) of the i-th iteration
generateId(draws) == [i \in 1..IdLength |-> chars[draws[i] + 1]]

\* the outcomes of Math.random() the model explores
RandomDraws == {[i \in 1..IdLength |-> IF i = IdLength THEN k ELSE 0] : k \in 0..MaxDraw}

lowerLetters == <<"a", "b", "c", "d", "e", "f", "g", "h", "i", "j", "k", "l", "m",
                  "n", "o", "p", "q", "r", "s", "t", "u", "v", "w", "x", "y", "z">>

upperLetters == <<"A", "B", "C", "D", "E", "F", "G", "H", "I", "J", "K", "L", "M",
                  "N", "O", "P", "Q", "R", "S", "T", "U", "V", "W", "X", "Y", "Z">>

toUpperCase(s) ==
    [i \in DOMAIN s |->
        IF \E j \in DOMAIN lowerLetters : lowerLetters[j] = s[i]
        THEN upperLetters[CHOOSE j \in DOMAIN lowerLetters : lowerLetters[j] = s[i]]
        ELSE s[i]]

\* the ids generateId can return in the model
IdSpace == {generateId(d) : d \in RandomDraws}

\* the ids callers pass: every id of IdSpace, and the first one typed in lower case
CallIds == IdSpace \cup {<<"a", "a", "a", "a">>}

----------------------------------------------------------------------------
(* Storage *)

\* appendAuditLog putting the entry in front of the log
prependAuditLog(log, entry) == <<entry>> \o log

\* appendAuditLog with writeFileSync for appendFileSync: the entry replaces the log
writeAuditLog(log, entry) == <<entry>>

appendAuditLog(log, entry) == Append(log, entry)

\* the content of a record file that JSON.parse rejects
Unparseable == [unparseable |-> TRUE]

loadApproval(dir, id) ==
    IF id \in DOMAIN dir /\ dir[id] # Unparseable THEN dir[id] ELSE Null

\* saveApproval updating the fields of the stored file in place instead of replacing
\* the file as a whole
saveApprovalMerging(dir, approval) ==
    IF approval.id \in DOMAIN dir /\ dir[approval.id] # Unparseable
    THEN (approval.id :> (approval @@ dir[approval.id])) @@ dir
    ELSE (approval.id :> approval) @@ dir

saveApproval(dir, approval) == (approval.id :> approval) @@ dir

deleteApproval(dir, id) == [x \in DOMAIN dir \ {id} |-> dir[x]]

\* the world an operation reads and writes
World(dir, log, runs) == [files |-> dir, audit |-> log, ran |-> runs]

\* an operation that returned v / that threw e
Return(w, v) == [w |-> w, err |-> NoError, ret |-> v]

Throw(w, e) == [w |-> w, err |-> e, ret |-> Null]

\* new Error(`Approval ${id} not found`)
NotFound(id) == [kind |-> "NotFound"]

\* new Error(`Approval ${id} is ${status}, not pending`), `... must be approved first`
InvalidTransition(id, status, wanted) ==
    [kind |-> "InvalidTransition", wanted |-> wanted]

\* new Error(`Approval ${id} has expired`)
Expired(id) == [kind |-> "Expired"]

----------------------------------------------------------------------------
(* Core logic *)

\* propose without saveApproval: the record is returned and logged, never stored
proposeUnsaved(w, summary, commands, options, draws, t) ==
    LET expiryMs == IF Has(options, "expiryMs") THEN options.expiryMs ELSE DEFAULT_EXPIRY_MS
        base == [id |-> generateId(draws),
                 createdAt |-> t,
                 expiresAt |-> t + expiryMs,
                 summary |-> summary,
                 commands |-> commands,
                 status |-> "pending"]
        approval == SetFrom(SetFrom(base, "channel", options, "channel"),
                            "proposedBy", options, "proposedBy")
    IN Return(World(w.files,
                    appendAuditLog(w.audit,
                        [ts |-> approval.createdAt, event |-> "proposed",
                         id |-> approval.id, summary |-> approval.summary]),
                    w.ran),
              approval)

propose(w, summary, commands, options, draws, t) ==
    LET expiryMs == IF Has(options, "expiryMs") THEN options.expiryMs ELSE DEFAULT_EXPIRY_MS
        base == [id |-> generateId(draws),
                 createdAt |-> t,
                 expiresAt |-> t + expiryMs,
                 summary |-> summary,
                 commands |-> commands,
                 status |-> "pending"]
        approval == SetFrom(SetFrom(base, "channel", options, "channel"),
                            "proposedBy", options, "proposedBy")
        entry == SetFrom(SetFrom(
                     [ts |-> approval.createdAt,
                      event |-> "proposed",
                      id |-> approval.id,
                      summary |-> approval.summary,
                      details |-> [commands |-> approval.commands,
                                   expiresAt |-> approval.expiresAt]],
                     "actor", options, "proposedBy"), "channel", options, "channel")
    IN Return(World(saveApproval(w.files, approval),
                    appendAuditLog(w.audit, entry),
                    w.ran),
              approval)

\* the branch of approve that finds the record past its expiry
expireOnApprove(w, approval, id, t) ==
    LET expired == Set(approval, "status", "expired")
    IN Throw(World(saveApproval(w.files, expired),
                   appendAuditLog(w.audit,
                       [ts |-> t, event |-> "expired",
                        id |-> expired.id, summary |-> expired.summary]),
                   w.ran),
             Expired(id))

\* the approving branch of approve without the assignment of approvedAt
stampApprovedNoTime(w, approval, approvedBy, t) ==
    LET approved == SetOpt(Set(approval, "status", "approved"),
                           "approvedBy", approvedBy)
    IN Return(World(saveApproval(w.files, approved),
                    appendAuditLog(w.audit,
                        SetFrom(SetOpt(
                            [ts |-> t, event |-> "approved",
                             id |-> approved.id, summary |-> approved.summary],
                            "actor", approvedBy), "channel", approved, "channel")),
                    w.ran),
              approved)

\* the branch of approve that approves the record
stampApproved(w, approval, approvedBy, t) ==
    LET approved == SetOpt(Set(Set(approval, "status", "approved"),
                               "approvedAt", t),
                           "approvedBy", approvedBy)
    IN Return(World(saveApproval(w.files, approved),
                    appendAuditLog(w.audit,
                        SetFrom(SetOpt(
                            [ts |-> approved.approvedAt, event |-> "approved",
                             id |-> approved.id, summary |-> approved.summary],
                            "actor", approvedBy), "channel", approved, "channel")),
                    w.ran),
              approved)

\* approve without its expiry check
approveNoExpiryCheck(w, id, approvedBy, t) ==
    LET approval == loadApproval(w.files, toUpperCase(id))
    IN IF approval = Null
       THEN Throw(w, NotFound(id))
       ELSE IF approval.status # "pending"
       THEN Throw(w, InvalidTransition(id, approval.status, "pending"))
       ELSE stampApproved(w, approval, approvedBy, t)

\* approve without its check that the record is pending
approveAnyStatus(w, id, approvedBy, t) ==
    LET approval == loadApproval(w.files, toUpperCase(id))
    IN IF approval = Null
       THEN Throw(w, NotFound(id))
       ELSE IF approval.expiresAt < t
       THEN expireOnApprove(w, approval, id, t)
       ELSE stampApproved(w, approval, approvedBy, t)

\* approve testing the expiry before the status
approveExpiryFirst(w, id, approvedBy, t) ==
    LET approval == loadApproval(w.files, toUpperCase(id))
    IN IF approval = Null
       THEN Throw(w, NotFound(id))
       ELSE IF approval.expiresAt < t
       THEN expireOnApprove(w, approval, id, t)
       ELSE IF approval.status # "pending"
       THEN Throw(w, InvalidTransition(id, approval.status, "pending"))
       ELSE stampApproved(w, approval, approvedBy, t)

approve(w, id, approvedBy, t) ==
    LET approval == loadApproval(w.files, toUpperCase(id))
    IN IF approval = Null
       THEN Throw(w, NotFound(id))
       ELSE IF approval.status # "pending"
       THEN Throw(w, InvalidTransition(id, approval.status, "pending"))
       ELSE IF approval.expiresAt < t
       THEN expireOnApprove(w, approval, id, t)
       ELSE stampApproved(w, approval, approvedBy, t)

\* the tail of deny writing the record into an emptied directory
stampDeniedAlone(w, approval, deniedBy, t) ==
    LET denied == SetOpt(Set(Set(approval, "status", "denied"),
                             "deniedAt", t),
                         "deniedBy", deniedBy)
    IN Return(World((denied.id :> denied),
                    appendAuditLog(w.audit,
                        SetFrom(SetOpt(
                            [ts |-> denied.deniedAt, event |-> "denied",
                             id |-> denied.id, summary |-> denied.summary],
                            "actor", deniedBy), "channel", denied, "channel")),
                    w.ran),
              denied)

\* the part of deny that denies the record
stampDenied(w, approval, deniedBy, t) ==
    LET denied == SetOpt(Set(Set(approval, "status", "denied"),
                             "deniedAt", t),
                         "deniedBy", deniedBy)
    IN Return(World(saveApproval(w.files, denied),
                    appendAuditLog(w.audit,
                        SetFrom(SetOpt(
                            [ts |-> denied.deniedAt, event |-> "denied",
                             id |-> denied.id, summary |-> denied.summary],
                            "actor", deniedBy), "channel", denied, "channel")),
                    w.ran),
              denied)

\* deny that stamps and saves the record before it validates the status
denySavesFirst(w, id, deniedBy, t) ==
    LET approval == loadApproval(w.files, toUpperCase(id))
    IN IF approval = Null
       THEN Throw(w, NotFound(id))
       ELSE IF approval.status # "pending"
       THEN Throw(stampDenied(w, approval, deniedBy, t).w,
                  InvalidTransition(id, approval.status, "pending"))
       ELSE stampDenied(w, approval, deniedBy, t)

\* deny with the expiry check of approve
denyChecksExpiry(w, id, deniedBy, t) ==
    LET approval == loadApproval(w.files, toUpperCase(id))
    IN IF approval = Null
       THEN Throw(w, NotFound(id))
       ELSE IF approval.status # "pending"
       THEN Throw(w, InvalidTransition(id, approval.status, "pending"))
       ELSE IF approval.expiresAt < t
       THEN expireOnApprove(w, approval, id, t)
       ELSE stampDenied(w, approval, deniedBy, t)

deny(w, id, deniedBy, t) ==
    LET approval == loadApproval(w.files, toUpperCase(id))
    IN IF approval = Null
       THEN Throw(w, NotFound(id))
       ELSE IF approval.status # "pending"
       THEN Throw(w, InvalidTransition(id, approval.status, "pending"))
       ELSE stampDenied(w, approval, deniedBy, t)

\* execSync(cmd, ...): the trimmed stdout of a command that exits 0, or the thrown
\* error (stderr and message) of one that does not
execSync(cmd) ==
    CASE cmd = "echo ok" -> [ok |-> TRUE, output |-> "ok"]
      [] cmd = "echo ok2" -> [ok |-> TRUE, output |-> "ok2"]
      [] cmd = "echo 'No commands specified'" ->
             [ok |-> TRUE, output |-> "No commands specified"]
      [] cmd = "exit 1" -> [ok |-> FALSE, stderr |-> "", message |-> "Command failed: exit 1"]
      [] OTHER -> [ok |-> FALSE, stderr |-> "command not found", message |-> "Command failed"]

\* the loop of execute ending at the first command that fails
RECURSIVE runCommandsStopOnFailure(_, _, _, _)
runCommandsStopOnFailure(approval, i, acc, runs) ==
    IF i > Len(approval.commands)
    THEN [results |-> acc.results, errors |-> acc.errors, ran |-> runs]
    ELSE LET cmd == approval.commands[i]
             out == execSync(cmd)
             ranNow == Append(runs, <<approval.id, cmd>>)
         IN IF out.ok
            THEN runCommandsStopOnFailure(approval, i + 1,
                     [acc EXCEPT !.results = Append(@, [cmd |-> cmd, output |-> out.output])],
                     ranNow)
            ELSE [results |-> acc.results,
                  errors |-> Append(acc.errors,
                                [cmd |-> cmd,
                                 error |-> IF out.stderr # "" THEN out.stderr
                                           ELSE out.message]),
                  ran |-> ranNow]

\* the loop of execute over approval.commands, from command i on
RECURSIVE runCommands(_, _, _, _)
runCommands(approval, i, acc, runs) ==
    IF i > Len(approval.commands)
    THEN [results |-> acc.results, errors |-> acc.errors, ran |-> runs]
    ELSE LET cmd == approval.commands[i]
             out == execSync(cmd)
             ranNow == Append(runs, <<approval.id, cmd>>)
         IN IF out.ok
            THEN runCommands(approval, i + 1,
                     [acc EXCEPT !.results = Append(@, [cmd |-> cmd, output |-> out.output])],
                     ranNow)
            ELSE runCommands(approval, i + 1,
                     [acc EXCEPT !.errors = Append(@,
                         [cmd |-> cmd,
                          error |-> IF out.stderr # "" THEN out.stderr ELSE out.message])],
                     ranNow)

\* the status execute gives the record once its commands have run
executedStatus(results, errors) == "executed"

\* the part of execute that runs the commands of an approved record and stores the outcome
\* the tail of execute assigning approval.error unconditionally
runApprovedAlwaysError(w, approval, t) ==
    LET run == runCommands(approval, 1, [results |-> <<>>, errors |-> <<>>], w.ran)
        executed == Set(Set(Set(Set(approval, "status",
                                    executedStatus(run.results, run.errors)),
                                "executedAt", t),
                            "result", run.results),
                        "error", run.errors)
    IN Return(World(saveApproval(w.files, executed),
                    appendAuditLog(w.audit,
                        SetFrom(SetFrom(
                            [ts |-> executed.executedAt, event |-> "executed",
                             id |-> executed.id, summary |-> executed.summary,
                             details |-> [commandCount |-> Len(executed.commands),
                                          hasErrors |-> Len(run.errors) > 0]],
                            "actor", executed, "approvedBy"),
                            "channel", executed, "channel")),
                    run.ran),
              executed)

runApproved(w, approval, t) ==
    LET run == runCommands(approval, 1, [results |-> <<>>, errors |-> <<>>], w.ran)
        done == Set(Set(Set(approval, "status", executedStatus(run.results, run.errors)),
                        "executedAt", t),
                    "result", run.results)
        executed == IF Len(run.errors) > 0 THEN Set(done, "error", run.errors) ELSE done
    IN Return(World(saveApproval(w.files, executed),
                    appendAuditLog(w.audit,
                        SetFrom(SetFrom(
                            [ts |-> executed.executedAt, event |-> "executed",
                             id |-> executed.id, summary |-> executed.summary,
                             details |-> [commandCount |-> Len(executed.commands),
                                          hasErrors |-> Len(run.errors) > 0]],
                            "actor", executed, "approvedBy"),
                            "channel", executed, "channel")),
                    run.ran),
              executed)

\* execute without its check that the record is approved
executeAnyStatus(w, id, t) ==
    LET approval == loadApproval(w.files, toUpperCase(id))
    IN IF approval = Null
       THEN Throw(w, NotFound(id))
       ELSE runApproved(w, approval, t)

\* execute that throws when a command failed, after the commands have run
executeRethrows(w, id, t) ==
    LET approval == loadApproval(w.files, toUpperCase(id))
    IN IF approval = Null
       THEN Throw(w, NotFound(id))
       ELSE IF approval.status # "approved"
       THEN Throw(w, InvalidTransition(id, approval.status, "approved"))
       ELSE LET r == runApproved(w, approval, t)
            IN IF Has(r.ret, "error")
               THEN Throw(World(w.files, w.audit, r.w.ran), [kind |-> "CommandFailed"])
               ELSE r

\* execute that also accepts a record that was executed before
executeAgain(w, id, t) ==
    LET approval == loadApproval(w.files, toUpperCase(id))
    IN IF approval = Null
       THEN Throw(w, NotFound(id))
       ELSE IF approval.status \notin {"approved", "executed"}
       THEN Throw(w, InvalidTransition(id, approval.status, "approved"))
       ELSE runApproved(w, approval, t)

execute(w, id, t) ==
    LET approval == loadApproval(w.files, toUpperCase(id))
    IN IF approval = Null
       THEN Throw(w, NotFound(id))
       ELSE IF approval.status # "approved"
       THEN Throw(w, InvalidTransition(id, approval.status, "approved"))
       ELSE runApproved(w, approval, t)

\* approveAndExecute that swallows the failure of approve and executes all the same
approveAndExecuteUnguarded(w, id, actor, t) ==
    LET approved == approve(w, id, actor, t)
    IN execute(approved.w, id, t)

approveAndExecute(w, id, actor, t) ==
    LET approved == approve(w, id, actor, t)
    IN IF approved.err # NoError
       THEN approved
       ELSE execute(approved.w, approved.ret.id, t)

\* listApprovals without the sort: the records in directory order
keepDirectoryOrder(approvals) == approvals

\* approvals.sort((a, b) => b.createdAt - a.createdAt): stable, newest first
RECURSIVE sortNewestFirst(_)
sortNewestFirst(approvals) ==
    IF approvals = <<>>
    THEN <<>>
    ELSE LET front == sortNewestFirst(SubSeq(approvals, 1, Len(approvals) - 1))
             a == approvals[Len(approvals)]
             k == Cardinality({j \in DOMAIN front : front[j].createdAt >= a.createdAt})
         IN SubSeq(front, 1, k) \o <<a>> \o SubSeq(front, k + 1, Len(front))

\* the loop of listApprovals marking a stale record expired in memory only, without
\* saveApproval
RECURSIVE listScanNoSave(_, _, _, _, _, _)
listScanNoSave(w, dirents, i, includeAll, t, approvals) ==
    IF i > Len(dirents)
    THEN Return(w, sortNewestFirst(approvals))
    ELSE LET read == w.files[dirents[i]]
             stale == read.status = "pending" /\ read.expiresAt < t
             approval == IF stale THEN Set(read, "status", "expired") ELSE read
         IN listScanNoSave(w, dirents, i + 1, includeAll, t,
                           IF includeAll \/ approval.status = "pending"
                           THEN Append(approvals, approval)
                           ELSE approvals)

\* the loop of listApprovals with the try around the whole loop: the first file that
\* does not parse ends the scan
RECURSIVE listScanStopsAtBadFile(_, _, _, _, _, _)
listScanStopsAtBadFile(w, dirents, i, includeAll, t, approvals) ==
    IF i > Len(dirents) \/ w.files[dirents[i]] = Unparseable
    THEN Return(w, sortNewestFirst(approvals))
    ELSE LET read == w.files[dirents[i]]
             stale == read.status = "pending" /\ read.expiresAt < t
             approval == IF stale THEN Set(read, "status", "expired") ELSE read
             w2 == IF stale
                   THEN World(saveApproval(w.files, approval), w.audit, w.ran)
                   ELSE w
         IN listScanStopsAtBadFile(w2, dirents, i + 1, includeAll, t,
                                   IF includeAll \/ approval.status = "pending"
                                   THEN Append(approvals, approval)
                                   ELSE approvals)

\* the loop of listApprovals over the directory entries, from entry i on
RECURSIVE listScan(_, _, _, _, _, _)
listScan(w, dirents, i, includeAll, t, approvals) ==
    IF i > Len(dirents)
    THEN Return(w, sortNewestFirst(approvals))
    ELSE IF w.files[dirents[i]] = Unparseable
    THEN listScan(w, dirents, i + 1, includeAll, t, approvals)
    ELSE LET read == w.files[dirents[i]]
             stale == read.status = "pending" /\ read.expiresAt < t
             approval == IF stale THEN Set(read, "status", "expired") ELSE read
             w2 == IF stale
                   THEN World(saveApproval(w.files, approval), w.audit, w.ran)
                   ELSE w
         IN listScan(w2, dirents, i + 1, includeAll, t,
                     IF includeAll \/ approval.status = "pending"
                     THEN Append(approvals, approval)
                     ELSE approvals)

\* dirents is readdirSync(APPROVALS_DIR) filtered to the .json files, in the order the
\* file system returns them
listApprovals(w, includeAll, dirents, t) == listScan(w, dirents, 1, includeAll, t, <<>>)

\* the loop of batchApprove with the try around the whole loop: the first failure ends it
RECURSIVE batchLoopAbortOnError(_, _, _, _, _, _, _)
batchLoopAbortOnError(w, toProcess, i, actor, t, results, errors) ==
    IF i > Len(toProcess)
    THEN Return(w, [approved |-> results, errors |-> errors])
    ELSE LET r == approveAndExecute(w, toProcess[i], actor, t)
         IN IF r.err = NoError
            THEN batchLoopAbortOnError(r.w, toProcess, i + 1, actor, t,
                                       Append(results, r.ret), errors)
            ELSE Return(r.w, [approved |-> results,
                              errors |-> Append(errors, [id |-> toProcess[i],
                                                         error |-> r.err])])

\* the loop of batchApprove over toProcess, from position i on
RECURSIVE batchLoop(_, _, _, _, _, _, _)
batchLoop(w, toProcess, i, actor, t, results, errors) ==
    IF i > Len(toProcess)
    THEN Return(w, [approved |-> results, errors |-> errors])
    ELSE LET r == approveAndExecute(w, toProcess[i], actor, t)
         IN IF r.err = NoError
            THEN batchLoop(r.w, toProcess, i + 1, actor, t, Append(results, r.ret), errors)
            ELSE batchLoop(r.w, toProcess, i + 1, actor, t, results,
                           Append(errors, [id |-> toProcess[i], error |-> r.err]))

\* the argument ids: string[] | "all"
All == [all |-> TRUE]

Ids(list) == [all |-> FALSE, list |-> list]

\* batchApprove expanding "all" to every stored file in directory order
batchApproveEveryFile(w, ids, actor, dirents, t) ==
    IF ids.all
    THEN batchLoop(w, dirents, 1, actor, t, <<>>, <<>>)
    ELSE batchLoop(w, ids.list, 1, actor, t, <<>>, <<>>)

batchApprove(w, ids, actor, dirents, t) ==
    IF ids.all
    THEN LET listed == listApprovals(w, FALSE, dirents, t)
         IN batchLoop(listed.w, [j \in DOMAIN listed.ret |-> listed.ret[j].id],
                      1, actor, t, <<>>, <<>>)
    ELSE batchLoop(w, ids.list, 1, actor, t, <<>>, <<>>)

\* cleanedIds.join(",")
RECURSIVE join(_, _)
join(ids, sep) ==
    IF ids = <<>> THEN <<>>
    ELSE IF Len(ids) = 1 THEN ids[1]
    ELSE ids[1] \o <<sep>> \o join(Tail(ids), sep)

\* the loop of cleanExpired over all, from position i on
RECURSIVE cleanLoop(_, _, _, _, _)
cleanLoop(dir, all, i, cutoff, cleanedIds) ==
    IF i > Len(all)
    THEN [files |-> dir, cleanedIds |-> cleanedIds]
    ELSE LET a == all[i]
         IN IF a.status # "pending" /\ a.createdAt < cutoff
            THEN cleanLoop(deleteApproval(dir, a.id), all, i + 1, cutoff,
                           Append(cleanedIds, a.id))
            ELSE cleanLoop(dir, all, i + 1, cutoff, cleanedIds)

\* cleanExpired without the test removed > 0: it logs every invocation
cleanExpiredAlwaysLogs(w, olderThanDays, dirents, t) ==
    LET cutoff == t - olderThanDays * MsPerDay
        all == listApprovals(w, TRUE, dirents, t)
        swept == cleanLoop(all.w.files, all.ret, 1, cutoff, <<>>)
        removed == Len(swept.cleanedIds)
    IN Return(World(swept.files,
                    appendAuditLog(all.w.audit,
                        [ts |-> t, event |-> "cleaned",
                         id |-> join(swept.cleanedIds, ","),
                         summary |-> <<"Cleaned", removed, "old approval(s)">>,
                         details |-> [count |-> removed,
                                      olderThanDays |-> olderThanDays]]),
                    all.w.ran),
              removed)

cleanExpired(w, olderThanDays, dirents, t) ==
    LET cutoff == t - olderThanDays * MsPerDay
        all == listApprovals(w, TRUE, dirents, t)
        swept == cleanLoop(all.w.files, all.ret, 1, cutoff, <<>>)
        removed == Len(swept.cleanedIds)
    IN Return(World(swept.files,
                    IF removed > 0
                    THEN appendAuditLog(all.w.audit,
                             [ts |-> t, event |-> "cleaned",
                              id |-> join(swept.cleanedIds, ","),
                              summary |-> <<"Cleaned", removed, "old approval(s)">>,
                              details |-> [count |-> removed,
                                           olderThanDays |-> olderThanDays]])
                    ELSE all.w.audit,
                    all.w.ran),
              removed)

\* entries.slice(-limit).reverse()
readAuditLog(log, limit) ==
    LET n == Len(log)
        from == IF limit = 0 \/ limit > n THEN 1 ELSE n - limit + 1
        kept == SubSeq(log, from, n)
    IN [j \in 1..Len(kept) |-> kept[Len(kept) + 1 - j]]

\* getStats reporting the number of files in the directory as the total
getStatsCountsFiles(w, dirents, t) ==
    LET all == listApprovals(w, TRUE, dirents, t)
        seen == {all.ret[j].status : j \in DOMAIN all.ret}
    IN Return(all.w,
              [total |-> Len(dirents),
               byStatus |-> [s \in seen |->
                                Cardinality({j \in DOMAIN all.ret : all.ret[j].status = s})],
               recentActivity |-> readAuditLog(all.w.audit, StatsRecent)])

getStats(w, dirents, t) ==
    LET all == listApprovals(w, TRUE, dirents, t)
        seen == {all.ret[j].status : j \in DOMAIN all.ret}
    IN Return(all.w,
              [total |-> Len(all.ret),
               byStatus |-> [s \in seen |->
                                Cardinality({j \in DOMAIN all.ret : all.ret[j].status = s})],
               recentActivity |-> readAuditLog(all.w.audit, StatsRecent)])

----------------------------------------------------------------------------
(* Inputs of the calls *)

Actors == {"alice"}

Summaries == {"archive promo emails"}

\* propose(summary, commands, options): the command lists and options callers pass.
\* The commands of a proposal all succeed, all fail, or do both; the last proposal
\* expires at once, the others take the default time to live.
Proposals ==
    {[commands |-> <<"echo ok">>,
      options |-> [proposedBy |-> "cron", channel |-> "telegram"]],
     [commands |-> <<"exit 1">>,
      options |-> [proposedBy |-> "cron"]],
     [commands |-> <<"echo ok", "exit 1", "echo ok2">>,
      options |-> [proposedBy |-> "cron", expiryMs |-> 0]]}

\* batchApprove(ids, actor): two ids, the same id twice, an id typed in lower case
BatchIds == {Ids(<<a, b>>) : a \in CallIds, b \in IdSpace}

CleanDays == {0, 7}

\* the orders in which readdirSync can return the stored files
Dirents == {d \in [1..Cardinality(DOMAIN files) -> DOMAIN files] :
               \A a, b \in DOMAIN d : a # b => d[a] # d[b]}

Proposed == Cardinality({i \in DOMAIN audit : audit[i].event = "proposed"})

TheWorld == World(files, audit, ran)

\* the call's effect on the store, the log and the run record
Commit(r) ==
    /\ files' = r.w.files
    /\ audit' = r.w.audit
    /\ ran' = r.w.ran
    /\ UNCHANGED calls

----------------------------------------------------------------------------
(* The calls *)

\* the processes that share the approvals directory: the gateway and a CLI invocation
Callers == {"gateway", "cli"}

\* a caller that is not in the middle of a call
Idle == [phase |-> "idle"]

Init ==
    /\ files = <<>>
    /\ audit = <<>>
    /\ ran = <<>>
    /\ now = 0
    /\ calls = [c \in Callers |-> Idle]

Tick ==
    /\ now < MaxTime
    /\ now' = now + 1
    /\ UNCHANGED <<files, audit, ran, calls>>

CallPropose(summary, commands, options, draws) ==
    /\ Proposed < MaxProposals
    /\ Commit(propose(TheWorld, summary, commands, options, draws, now))
    /\ UNCHANGED now

CallApprove(id, actor) ==
    /\ Commit(approve(TheWorld, id, actor, now))
    /\ UNCHANGED now

CallDeny(id, actor) ==
    /\ Commit(deny(TheWorld, id, actor, now))
    /\ UNCHANGED now

CallExecute(id) ==
    /\ Commit(execute(TheWorld, id, now))
    /\ UNCHANGED now

CallApproveAndExecute(id, actor) ==
    /\ Commit(approveAndExecute(TheWorld, id, actor, now))
    /\ UNCHANGED now

CallBatch(ids, actor, dirents) ==
    /\ Commit(batchApprove(TheWorld, ids, actor, dirents, now))
    /\ UNCHANGED now

CallList(includeAll, dirents) ==
    /\ Commit(listApprovals(TheWorld, includeAll, dirents, now))
    /\ UNCHANGED now

CallClean(olderThanDays, dirents) ==
    /\ Commit(cleanExpired(TheWorld, olderThanDays, dirents, now))
    /\ UNCHANGED now

CallStats(dirents) ==
    /\ Commit(getStats(TheWorld, dirents, now))
    /\ UNCHANGED now

Propose == \E s \in Summaries, p \in Proposals, d \in RandomDraws :
               CallPropose(s, p.commands, p.options, d)

Approve == \E id \in CallIds, actor \in Actors : CallApprove(id, actor)

Deny == \E id \in CallIds, actor \in Actors : CallDeny(id, actor)

Execute == \E id \in CallIds : CallExecute(id)

ApproveAndExecute == \E id \in CallIds, actor \in Actors : CallApproveAndExecute(id, actor)

Batch == \E ids \in BatchIds \cup {All}, actor \in Actors, d \in Dirents :
             CallBatch(ids, actor, d)

List == \E includeAll \in BOOLEAN, d \in Dirents : CallList(includeAll, d)

Clean == \E days \in CleanDays, d \in Dirents : CallClean(days, d)

Stats == \E d \in Dirents : CallStats(d)

Next ==
    \/ Tick
    \/ Propose
    \/ Approve
    \/ Deny
    \/ Execute
    \/ ApproveAndExecute
    \/ Batch
    \/ List
    \/ Clean
    \/ Stats

Spec == Init /\ [][Next]_vars

----------------------------------------------------------------------------
(* The entry points that create records *)

\* { details, expiryMs, channel, chatId, proposedBy: actor } of the tool and the
\* gateway method; expiryMinutes ? expiryMinutes * 60 * 1000 : DEFAULT_EXPIRY_MS
entryOptions(params) ==
    SetFrom(SetFrom(
        [expiryMs |-> IF Has(params, "expiryMinutes") /\ params.expiryMinutes # 0
                      THEN params.expiryMinutes * MsPerMinute
                      ELSE DEFAULT_EXPIRY_MS],
        "channel", params, "channel"), "proposedBy", params, "actor")

\* new Error("summary is required for propose") / ("commands array is required ...")
InvalidParams(what) == [kind |-> "InvalidParams", what |-> what]

\* the agent tool, action "propose"
toolPropose(w, params, draws, t) ==
    IF ~Has(params, "summary") \/ params.summary = ""
    THEN Throw(w, InvalidParams("summary"))
    ELSE IF ~Has(params, "commands") \/ Len(params.commands) = 0
    THEN Throw(w, InvalidParams("commands"))
    ELSE propose(w, params.summary, params.commands, entryOptions(params), draws, t)

\* the gateway method approvals.propose
rpcPropose(w, params, draws, t) ==
    propose(w, params.summary, params.commands, entryOptions(params), draws, t)

\* the CLI command propose <summary> [-c <cmd...>] [--by <actor>]
cliPropose(w, summary, opts, draws, t) ==
    propose(w, summary,
            IF Has(opts, "command") THEN opts.command
            ELSE <<"echo 'No commands specified'">>,
            [proposedBy |-> IF Has(opts, "by") THEN opts.by ELSE "cli"],
            draws, t)

\* the parameters the tool and the gateway method are called with: no commands or one,
\* expiryMinutes left out, 0 or 1
EntryParams ==
    {[summary |-> s, commands |-> c, actor |-> "agent"] : s \in Summaries,
        c \in {<<>>, <<"echo ok">>}}
    \cup {[summary |-> s, commands |-> c, actor |-> "agent", expiryMinutes |-> m] :
             s \in Summaries, c \in {<<>>, <<"echo ok">>}, m \in {0, 1}}

\* the tool is also called without a commands or a summary parameter
ToolParams ==
    EntryParams \cup {[summary |-> "archive promo emails"], [commands |-> <<"echo ok">>]}

\* the options of the CLI command: -c takes one command or more
CliOpts == {<<>>, [command |-> <<"exit 1">>], [command |-> <<"echo ok">>, by |-> "cron"]}

CallToolPropose(params, draws) ==
    /\ Proposed < MaxProposals
    /\ Commit(toolPropose(TheWorld, params, draws, now))
    /\ UNCHANGED now

CallRpcPropose(params, draws) ==
    /\ Proposed < MaxProposals
    /\ Commit(rpcPropose(TheWorld, params, draws, now))
    /\ UNCHANGED now

CallCliPropose(summary, opts, draws) ==
    /\ Proposed < MaxProposals
    /\ Commit(cliPropose(TheWorld, summary, opts, draws, now))
    /\ UNCHANGED now

ToolPropose == \E params \in ToolParams, d \in RandomDraws : CallToolPropose(params, d)

RpcPropose == \E params \in EntryParams, d \in RandomDraws : CallRpcPropose(params, d)

CliPropose == \E s \in Summaries, opts \in CliOpts, d \in RandomDraws :
                  CallCliPropose(s, opts, d)

NextEntryPoints ==
    \/ Tick
    \/ ToolPropose
    \/ RpcPropose
    \/ CliPropose
    \/ ApproveAndExecute

\* records created through the entry points, then approved and executed
SpecEntryPoints == Init /\ [][NextEntryPoints]_vars

----------------------------------------------------------------------------
(* Damaged record files *)

\* a record file is damaged from outside the engine (a partial or foreign write): its
\* content no longer parses
DamageFile(id) ==
    /\ id \in DOMAIN files
    /\ files[id] # Unparseable
    /\ files' = [files EXCEPT ![id] = Unparseable]
    /\ UNCHANGED <<audit, ran, now, calls>>

Damage == \E id \in IdSpace : DamageFile(id)

NextWithDamage ==
    \/ Next
    \/ Damage

\* the engine over a store whose files can be damaged
SpecWithDamage == Init /\ [][NextWithDamage]_vars

----------------------------------------------------------------------------
(* Two processes on the same directory. Every function of the engine is synchronous,
   so the calls of one process never overlap; the gateway and a CLI invocation are
   two processes, and their calls interleave between one file operation and the
   next: the readFileSync of loadApproval, the writeFileSync of saveApproval and
   the appendFileSync of appendAuditLog. *)

\* approve, deny or execute up to its saveApproval: loadApproval and the checks on
\* the record read; a call whose checks fail throws here and has no effect
Load(c, op, id, actor) ==
    /\ calls[c] = Idle
    /\ LET approval == loadApproval(files, toUpperCase(id))
       IN /\ approval # Null
          /\ approval.status = (IF op = "execute" THEN "approved" ELSE "pending")
          /\ calls' = [calls EXCEPT ![c] = [phase |-> "loaded", op |-> op, id |-> id,
                                            actor |-> actor, approval |-> approval]]
    /\ UNCHANGED <<files, audit, ran, now>>

\* what the call of c does to the record it has read, applied to the directory as it
\* is now
Written(c) ==
    LET k == calls[c]
    IN CASE k.op = "approve" ->
                IF k.approval.expiresAt < now
                THEN expireOnApprove(TheWorld, k.approval, k.id, now)
                ELSE stampApproved(TheWorld, k.approval, k.actor, now)
         [] k.op = "deny" -> stampDenied(TheWorld, k.approval, k.actor, now)
         [] k.op = "execute" -> runApproved(TheWorld, k.approval, now)

\* the call of c up to and including its saveApproval (execute runs the commands first)
Save(c) ==
    /\ calls[c].phase = "loaded"
    /\ LET r == Written(c)
       IN /\ files' = r.w.files
          /\ ran' = r.w.ran
          /\ calls' = [calls EXCEPT ![c] = [phase |-> "saved",
                                            entry |-> r.w.audit[Len(r.w.audit)]]]
    /\ UNCHANGED <<audit, now>>

\* the appendAuditLog that ends the call of c
Log(c) ==
    /\ calls[c].phase = "saved"
    /\ audit' = appendAuditLog(audit, calls[c].entry)
    /\ calls' = [calls EXCEPT ![c] = Idle]
    /\ UNCHANGED <<files, ran, now>>

Loads == \E c \in Callers, op \in {"approve", "deny", "execute"}, id \in CallIds,
            actor \in Actors : Load(c, op, id, actor)

Saves == \E c \in Callers : Save(c)

Logs == \E c \in Callers : Log(c)

\* the record the two callers work on is proposed
ProposeFirst == Proposed = 0 /\ Propose

NextConcurrent ==
    \/ Tick
    \/ ProposeFirst
    \/ Loads
    \/ Saves
    \/ Logs

\* approve, deny and execute of two processes interleaved on the same directory
SpecConcurrent == Init /\ [][NextConcurrent]_vars

----------------------------------------------------------------------------
(* Properties *)

\* the record a call on id finds: loadApproval(id.toUpperCase())
Stored(id) == loadApproval(files, toUpperCase(id))

IsStored(id) == Stored(id) # Null

\* the audit entries of the log from position k on
Appended(log, k) == SubSeq(log, k + 1, Len(log))

\* C1: execute(id) runs the commands of the record only when its stored status is
\* 'approved'. On a record in any other status (pending, denied, expired, executed,
\* partial, failed) it fails with InvalidTransition, runs no command and changes
\* nothing; and every command that has run belongs to a record that was approved.
C1_ExecuteOnlyWhenApproved ==
    /\ \A id \in CallIds :
          LET r == execute(TheWorld, id, now)
          IN /\ (IsStored(id) /\ Stored(id).status # "approved")
                   => /\ r.err.kind = "InvalidTransition"
                      /\ r.w = TheWorld
             /\ r.w.ran # ran => (IsStored(id) /\ Stored(id).status = "approved")
    /\ \A k \in DOMAIN ran :
          \E i \in DOMAIN audit : audit[i].event = "approved" /\ audit[i].id = ran[k][1]

\* a denied record and an executed record are stored, execute fails on both with
\* InvalidTransition, and the only commands that have run are the executed record's
C1_Witness ==
    \E a, b \in DOMAIN files :
        /\ files[a].status = "denied"
        /\ files[b].status = "executed"
        /\ execute(TheWorld, a, now).err.kind = "InvalidTransition"
        /\ execute(TheWorld, b, now).err.kind = "InvalidTransition"
        /\ ran # <<>>
        /\ \A k \in DOMAIN ran : ran[k][1] = b

\* C2: approve(id) on a pending record whose expiresAt has passed fails with Expired;
\* the stored record then has status 'expired', approvedAt and approvedBy stay unset,
\* exactly one audit entry is appended, an 'expired' entry for that id, and no
\* command runs.
C2_ApproveExpired ==
    \A id \in CallIds, actor \in Actors :
        (IsStored(id) /\ Stored(id).status = "pending" /\ Stored(id).expiresAt < now)
        => LET r == approve(TheWorld, id, actor, now)
               after == loadApproval(r.w.files, Stored(id).id)
           IN /\ r.err.kind = "Expired"
              /\ after = Set(Stored(id), "status", "expired")
              /\ ~Has(after, "approvedAt")
              /\ ~Has(after, "approvedBy")
              /\ Len(r.w.audit) = Len(audit) + 1
              /\ SubSeq(r.w.audit, 1, Len(audit)) = audit
              /\ r.w.audit[Len(r.w.audit)].event = "expired"
              /\ r.w.audit[Len(r.w.audit)].id = Stored(id).id
              /\ r.w.ran = ran

\* approve has just expired a record: the log ends with its 'expired' entry, written
\* after the record's expiresAt, and the record is stored as expired and unapproved
C2_Witness ==
    /\ audit # <<>>
    /\ audit[Len(audit)].event = "expired"
    /\ \E id \in DOMAIN files :
          /\ audit[Len(audit)].id = id
          /\ files[id].status = "expired"
          /\ files[id].expiresAt < audit[Len(audit)].ts
          /\ ~Has(files[id], "approvedAt")

\* C3: approve(id, actor) on a pending record that has not expired stores status
\* 'approved' with approvedAt = now and approvedBy = actor and returns that record;
\* approve on a record that was approved before (status approved, executed, partial or
\* failed) fails with InvalidTransition and leaves the store, with the record's
\* approvedAt and approvedBy, and the log unchanged.
C3_ApproveOnce ==
    \A id \in CallIds, actor \in Actors :
        LET r == approve(TheWorld, id, actor, now)
        IN /\ (IsStored(id) /\ Stored(id).status = "pending" /\ now < Stored(id).expiresAt)
                 => /\ r.err = NoError
                    /\ r.ret = loadApproval(r.w.files, Stored(id).id)
                    /\ r.ret.status = "approved"
                    /\ r.ret.approvedAt = now
                    /\ r.ret.approvedBy = actor
                    /\ r.ret = Set(Set(Set(Stored(id), "status", "approved"),
                                       "approvedAt", now), "approvedBy", actor)
           /\ (IsStored(id) /\ Stored(id).status \in {"approved", "executed", "partial", "failed"})
                 => /\ r.err.kind = "InvalidTransition"
                    /\ r.w = TheWorld

\* a record approved at an earlier time is stored with its stamps, and approve on it
\* fails with InvalidTransition
C3_Witness ==
    \E id \in DOMAIN files :
        /\ files[id].status = "approved"
        /\ files[id].approvedAt < now
        /\ files[id].approvedBy = "alice"
        /\ approve(TheWorld, id, "alice", now).err.kind = "InvalidTransition"

\* the status the commands' outcomes call for: executed when all succeeded, failed when
\* all failed, partial otherwise
ClaimedStatus(commands) ==
    IF \A i \in DOMAIN commands : execSync(commands[i]).ok THEN "executed"
    ELSE IF \A i \in DOMAIN commands : ~execSync(commands[i]).ok THEN "failed"
    ELSE "partial"

\* C4: execute on an approved record sets the final status by the outcomes of its
\* commands: executed when every command succeeded, failed when every command failed,
\* partial when some succeeded and some failed. (Every stored record that execute has
\* stamped carries the status its commands call for.)
C4_StatusByOutcomes ==
    \A id \in DOMAIN files :
        Has(files[id], "executedAt") => files[id].status = ClaimedStatus(files[id].commands)

\* C5: execute(id) on an approved record whose expiresAt has passed fails with an
\* expired error and runs none of its commands.
C5_ExecuteAfterExpiryFails ==
    [][\A id \in CallIds :
          (/\ CallExecute(id)
           /\ IsStored(id)
           /\ Stored(id).status = "approved"
           /\ Stored(id).expiresAt < now)
          => /\ execute(TheWorld, id, now).err.kind = "Expired"
             /\ ran' = ran]_vars

AllowedTransitions ==
    {<<"pending", "approved">>, <<"pending", "denied">>, <<"pending", "expired">>,
     <<"approved", "executed">>, <<"approved", "partial">>, <<"approved", "failed">>,
     <<"approved", "expired">>}

TerminalStatuses == {"denied", "executed", "partial", "failed", "expired"}

\* the statuses id went through in a step from old to new: one allowed change, or, in a
\* step that logged the approval of id (approveAndExecute, batch), pending -> approved
\* followed by an allowed change out of approved
AllowedChange(id, old, new, logBefore, logAfter) ==
    \/ <<old, new>> \in AllowedTransitions
    \/ /\ old = "pending"
       /\ <<"approved", new>> \in AllowedTransitions
       /\ \E k \in (Len(logBefore) + 1)..Len(logAfter) :
             logAfter[k].event = "approved" /\ logAfter[k].id = id

\* C6: every change of the stored status of an id is one of pending->approved,
\* pending->denied, pending->expired, approved->executed, approved->partial,
\* approved->failed, approved->expired; and a record in denied, executed, partial,
\* failed or expired is never changed again, only deleted.
C6_LifecycleTransitions ==
    [][\A id \in DOMAIN files :
          id \in DOMAIN files'
          => /\ files'[id].status # files[id].status
                   => AllowedChange(id, files[id].status, files'[id].status, audit, audit')
             /\ files[id].status \in TerminalStatuses => files'[id] = files[id]]_vars

\* C7: propose returns an id that differs from the id of every stored record, so it
\* overwrites no record and adds one record to the store.
C7_ProposeFreshId ==
    [][\A s \in Summaries, p \in Proposals, d \in RandomDraws :
          CallPropose(s, p.commands, p.options, d)
          => /\ generateId(d) \notin DOMAIN files
             /\ Cardinality(DOMAIN files') = Cardinality(DOMAIN files) + 1]_vars

\* C8: deny(id, actor) on a record whose stored status is pending succeeds, also when
\* its expiresAt has passed: the stored record gets status 'denied' (never 'expired'),
\* deniedAt = now and deniedBy = actor, the call returns it, and exactly one audit
\* entry is appended, a 'denied' entry for that id by that actor.
C8_DenyWhilePending ==
    \A id \in CallIds, actor \in Actors :
        (IsStored(id) /\ Stored(id).status = "pending")
        => LET r == deny(TheWorld, id, actor, now)
               after == loadApproval(r.w.files, Stored(id).id)
           IN /\ r.err = NoError
              /\ r.ret = after
              /\ after = Set(Set(Set(Stored(id), "status", "denied"),
                                 "deniedAt", now), "deniedBy", actor)
              /\ Len(r.w.audit) = Len(audit) + 1
              /\ SubSeq(r.w.audit, 1, Len(audit)) = audit
              /\ r.w.audit[Len(r.w.audit)].event = "denied"
              /\ r.w.audit[Len(r.w.audit)].id = Stored(id).id
              /\ r.w.audit[Len(r.w.audit)].actor = actor
              /\ r.w.ran = ran

\* a record was denied after its expiresAt had passed: it is stored as denied, and the
\* log ends with its 'denied' entry
C8_Witness ==
    /\ audit # <<>>
    /\ audit[Len(audit)].event = "denied"
    /\ \E id \in DOMAIN files :
          /\ audit[Len(audit)].id = id
          /\ files[id].status = "denied"
          /\ files[id].expiresAt < files[id].deniedAt
          /\ files[id].deniedBy = "alice"

\* C9: approveAndExecute(id, actor) is approve then execute. When approve fails (no
\* record: NotFound; status not pending: InvalidTransition; pending past expiry:
\* Expired) that failure is reported, no command runs and no 'executed' audit entry is
\* appended. When approve succeeds the commands run once, an 'approved' and an
\* 'executed' entry are appended, and the returned record is the stored one, with
\* approvedBy = actor and a post-execution status.
C9_ApproveThenExecute ==
    \A id \in CallIds, actor \in Actors :
        LET r == approveAndExecute(TheWorld, id, actor, now)
            new == Appended(r.w.audit, Len(audit))
            fails == \/ ~IsStored(id)
                     \/ Stored(id).status # "pending"
                     \/ Stored(id).expiresAt < now
        IN /\ ~IsStored(id) => r.err.kind = "NotFound"
           /\ (IsStored(id) /\ Stored(id).status # "pending")
                 => r.err = InvalidTransition(id, Stored(id).status, "pending")
           /\ (IsStored(id) /\ Stored(id).status = "pending" /\ Stored(id).expiresAt < now)
                 => r.err.kind = "Expired"
           /\ fails => /\ r.w.ran = ran
                       /\ \A k \in DOMAIN new : new[k].event # "executed"
                       /\ r.w = approve(TheWorld, id, actor, now).w
           /\ ~fails => /\ r.err = NoError
                        /\ r.ret = loadApproval(r.w.files, toUpperCase(id))
                        /\ r.ret.approvedBy = actor
                        /\ r.ret.status \in {"executed", "partial", "failed"}
                        /\ r.w.ran = ran \o [k \in DOMAIN r.ret.commands |->
                                                <<r.ret.id, r.ret.commands[k]>>]
                        /\ Len(new) = 2
                        /\ new[1].event = "approved" /\ new[1].id = r.ret.id
                        /\ new[2].event = "executed" /\ new[2].id = r.ret.id

\* a record was approved and executed at one time (the log holds its 'approved' entry
\* directly followed by its 'executed' entry), and approveAndExecute fails with Expired
\* on a stored record that is pending past its expiry
C9_Witness ==
    /\ \E i \in DOMAIN audit :
          /\ i < Len(audit)
          /\ audit[i].event = "approved"
          /\ audit[i + 1].event = "executed"
          /\ audit[i + 1].id = audit[i].id
          /\ audit[i + 1].ts = audit[i].ts
    /\ \E id \in DOMAIN files :
          /\ files[id].status = "pending"
          /\ files[id].expiresAt < now
          /\ approveAndExecute(TheWorld, id, "alice", now).err.kind = "Expired"

\* the elements of seq at the positions in S, in order
PickAt(seq, S) ==
    LET F[i \in 0..Len(seq)] ==
            IF i = 0 THEN <<>>
            ELSE IF i \in S THEN Append(F[i - 1], seq[i]) ELSE F[i - 1]
    IN F[Len(seq)]

\* C10: batch(ids, actor) processes every id of the input list in input order and
\* isolates failures: it never fails itself; position i ends in the approved list when
\* approveAndExecute succeeds on ids[i] in the store left by the positions before it,
\* and in the errors list as {id, error} when it fails, after which the later
\* positions are still processed; so length(approved) + length(errors) is the input
\* length and both lists keep the input order.
C10_BatchIsolatesFailures ==
    \A ids \in BatchIds, actor \in Actors :
        LET in == ids.list
            r == batchApprove(TheWorld, ids, actor, <<>>, now)
            \* the world before position i is processed, and the outcome of position i
            before[i \in 1..(Len(in) + 1)] ==
                IF i = 1 THEN TheWorld
                ELSE approveAndExecute(before[i - 1], in[i - 1], actor, now).w
            at(i) == approveAndExecute(before[i], in[i], actor, now)
            ok == {i \in DOMAIN in : at(i).err = NoError}
            bad == DOMAIN in \ ok
        IN /\ r.err = NoError
           /\ Len(r.ret.approved) + Len(r.ret.errors) = Len(in)
           /\ r.ret.approved = PickAt([i \in DOMAIN in |-> at(i).ret], ok)
           /\ r.ret.errors = PickAt([i \in DOMAIN in |-> [id |-> in[i], error |-> at(i).err]],
                                    bad)
           /\ r.w = before[Len(in) + 1]
           /\ \A i \in DOMAIN in :
                 (/\ \A j \in 1..(i - 1) : toUpperCase(in[j]) # toUpperCase(in[i])
                  /\ IsStored(in[i])
                  /\ Stored(in[i]).status = "pending"
                  /\ now < Stored(in[i]).expiresAt)
                 => i \in ok

\* batch on a stored list fails on its first id and still approves and executes its
\* second: one entry in each list
C10_Witness ==
    \E ids \in BatchIds :
        LET r == batchApprove(TheWorld, ids, "alice", <<>>, now)
        IN /\ Len(r.ret.errors) = 1
           /\ r.ret.errors[1].id = ids.list[1]
           /\ Len(r.ret.approved) = 1
           /\ r.ret.approved[1].id = toUpperCase(ids.list[2])
           /\ r.ret.approved[1].status = "executed"

\* C11: in batch a record whose commands fail is not a batch error: for input ids
\* that are all pending and unexpired (and distinct), every record is returned in the
\* approved list and the errors list is empty, with status 'executed' for a record
\* whose commands all succeeded and 'failed' for a record whose commands all failed.
C11_BatchFailedCommands ==
    \A ids \in BatchIds, actor \in Actors :
        LET in == ids.list
            r == batchApprove(TheWorld, ids, actor, <<>>, now)
        IN (/\ \A i, j \in DOMAIN in : i # j => toUpperCase(in[i]) # toUpperCase(in[j])
            /\ \A i \in DOMAIN in : /\ IsStored(in[i])
                                    /\ Stored(in[i]).status = "pending"
                                    /\ ~(Stored(in[i]).expiresAt < now))
           => /\ r.ret.errors = <<>>
              /\ Len(r.ret.approved) = Len(in)
              /\ \A i \in DOMAIN in :
                    LET a == r.ret.approved[i]
                    IN /\ a.id = toUpperCase(in[i])
                       /\ (\A k \in DOMAIN a.commands : execSync(a.commands[k]).ok)
                             => a.status = "executed"
                       /\ (\A k \in DOMAIN a.commands : ~execSync(a.commands[k]).ok)
                             => a.status = "failed"

\* C12: clean(olderThanDays) never deletes a record whose stored status is pending
\* when clean is called, whatever its createdAt and expiresAt are.
C12_CleanKeepsPending ==
    [][\A days \in CleanDays, d \in Dirents :
          CallClean(days, d)
          => \A id \in DOMAIN files :
                files[id].status = "pending" => id \in DOMAIN files']_vars

\* the stored records clean(olderThanDays) called at time t is to delete: not pending,
\* and created before t minus olderThanDays days
Doomed(dir, olderThanDays, t) ==
    {id \in DOMAIN dir : /\ dir[id].status # "pending"
                         /\ dir[id].createdAt < t - olderThanDays * MsPerDay}

\* C13: clean(olderThanDays) deletes exactly the stored records whose status is not
\* pending and whose createdAt is earlier than now minus olderThanDays days, leaves
\* every other record unchanged, and returns the number of records it deleted.
C13_CleanDeletesExactly ==
    [][\A days \in CleanDays, d \in Dirents :
          CallClean(days, d)
          => /\ DOMAIN files' = DOMAIN files \ Doomed(files, days, now)
             /\ \A id \in DOMAIN files' : files'[id] = files[id]
             /\ cleanExpired(TheWorld, days, d, now).ret
                   = Cardinality(Doomed(files, days, now))]_vars

\* the orders in which the ids of the set S can be listed
Orders(S) ==
    {o \in [1..Cardinality(S) -> S] : \A a, b \in DOMAIN o : a # b => o[a] # o[b]}

\* C14: each clean invocation appends exactly one 'cleaned' audit entry when it
\* deleted at least one record, whose id field is the comma-joined list of all deleted
\* ids and whose count equals the number deleted, and appends no audit entry when it
\* deleted none.
C14_CleanedEntry ==
    \A days \in CleanDays, d \in Dirents :
        LET r == cleanExpired(TheWorld, days, d, now)
            deleted == DOMAIN files \ DOMAIN r.w.files
            new == Appended(r.w.audit, Len(audit))
        IN /\ SubSeq(r.w.audit, 1, Len(audit)) = audit
           /\ deleted = {} => new = <<>>
           /\ deleted # {} => /\ Len(new) = 1
                              /\ new[1].event = "cleaned"
                              /\ \E o \in Orders(deleted) : new[1].id = join(o, ",")
                              /\ new[1].details.count = Cardinality(deleted)

\* a clean has deleted the two stored records and logged them in one 'cleaned' entry
\* with count 2, and a clean of the now empty store appends nothing
C14_Witness ==
    /\ files = <<>>
    /\ audit # <<>>
    /\ LET e == audit[Len(audit)]
       IN /\ e.event = "cleaned"
          /\ e.details.count = 2
          /\ \E a, b \in IdSpace : a # b /\ e.id = join(<<a, b>>, ",")
          /\ Cardinality({i \in DOMAIN audit : audit[i].event = "cleaned"}) = 1
    /\ cleanExpired(TheWorld, 0, <<>>, now).w.audit = audit

\* the ids of the records of a list, as a set
IdsOf(list) == {list[j].id : j \in DOMAIN list}

NewestFirst(list) ==
    \A i, j \in DOMAIN list : i < j => list[i].createdAt >= list[j].createdAt

\* C15: list(false) returns only records whose status is pending (never one whose
\* stored status is executed, denied, failed, partial, approved or expired);
\* list(true) returns every stored record; both results are ordered by createdAt
\* descending.
C15_ListFilterAndOrder ==
    \A d \in Dirents :
        LET pending == listApprovals(TheWorld, FALSE, d, now)
            all == listApprovals(TheWorld, TRUE, d, now)
        IN /\ pending.err = NoError /\ all.err = NoError
           /\ \A j \in DOMAIN pending.ret :
                 /\ pending.ret[j].status = "pending"
                 /\ files[pending.ret[j].id].status = "pending"
                 /\ pending.ret[j] = pending.w.files[pending.ret[j].id]
           /\ IdsOf(pending.ret) = {id \in DOMAIN files : /\ files[id].status = "pending"
                                                          /\ ~(files[id].expiresAt < now)}
           /\ Len(pending.ret) = Cardinality(IdsOf(pending.ret))
           /\ IdsOf(all.ret) = DOMAIN files
           /\ Len(all.ret) = Cardinality(DOMAIN files)
           /\ \A j \in DOMAIN all.ret : all.ret[j] = all.w.files[all.ret[j].id]
           /\ NewestFirst(pending.ret)
           /\ NewestFirst(all.ret)

\* the store holds an older pending record and a newer executed or denied one: read
\* oldest first from the directory, list(true) returns the newer one first and
\* list(false) only the pending one
C15_Witness ==
    \E a, b \in DOMAIN files :
        /\ files[a].createdAt < files[b].createdAt
        /\ files[a].status = "pending"
        /\ files[b].status \in {"executed", "denied"}
        /\ listApprovals(TheWorld, TRUE, <<a, b>>, now).ret = <<files[b], files[a]>>
        /\ listApprovals(TheWorld, FALSE, <<a, b>>, now).ret = <<files[a]>>

\* C16: list applies lazy expiry: every stored record with status pending whose
\* expiresAt has passed at the time of the call is persisted with status 'expired'
\* before inclusion is decided, so after a list call no stored pending record has an
\* expiresAt earlier than the call time, and list(false) never returns an expired
\* record.
C16_ListLazyExpiry ==
    \A includeAll \in BOOLEAN, d \in Dirents :
        LET r == listApprovals(TheWorld, includeAll, d, now)
            stale(id) == files[id].status = "pending" /\ files[id].expiresAt < now
        IN /\ DOMAIN r.w.files = DOMAIN files
           /\ \A id \in DOMAIN files :
                 r.w.files[id] = IF stale(id) THEN Set(files[id], "status", "expired")
                                 ELSE files[id]
           /\ \A id \in DOMAIN r.w.files :
                 ~(r.w.files[id].status = "pending" /\ r.w.files[id].expiresAt < now)
           /\ \A j \in DOMAIN r.ret :
                 /\ stale(r.ret[j].id) => (includeAll /\ r.ret[j].status = "expired")
                 /\ ~includeAll => r.ret[j].status # "expired"
           /\ r.w.audit = audit /\ r.w.ran = ran

\* a stored record is expired at its expiresAt passed though approve never logged its
\* expiry: a list (or a stats, clean or batch 'all' scan) persisted the change; list
\* now returns it only with includeAll
C16_Witness ==
    \E id \in DOMAIN files :
        /\ files[id].status = "expired"
        /\ files[id].expiresAt < now
        /\ \A i \in DOMAIN audit : ~(audit[i].event = "expired" /\ audit[i].id = id)
        /\ \A d \in Dirents :
              /\ id \notin IdsOf(listApprovals(TheWorld, FALSE, d, now).ret)
              /\ id \in IdsOf(listApprovals(TheWorld, TRUE, d, now).ret)

\* the audit event that records a change of the stored status to status
EventOf(status) ==
    CASE status = "pending" -> "proposed"
      [] status \in {"failed", "partial"} -> "executed"
      [] OTHER -> status

\* the entry names id: it is for id, or its id field is a comma-joined listing of
\* stored ids with id among them
Names(entry, id, dir) ==
    \/ entry.id = id
    \/ \E S \in SUBSET DOMAIN dir : id \in S /\ \E o \in Orders(S) : entry.id = join(o, ",")

\* C17: every operation that mutates the store appends an audit entry: whenever the
\* stored status of a record changes (including a pending -> expired change made by
\* list, stats, clean or batch 'all'), or a record is created or deleted, the audit
\* log grows by an entry of the matching event kind for that id.
C17_MutationsAreLogged ==
    [][\A id \in DOMAIN files \cup DOMAIN files' :
          LET new == Appended(audit', Len(audit))
              logged(event) == \E k \in DOMAIN new : /\ new[k].event = event
                                                      /\ Names(new[k], id, files)
          IN /\ (id \in DOMAIN files /\ id \in DOMAIN files'
                    /\ files'[id].status # files[id].status)
                   => logged(EventOf(files'[id].status))
             /\ (id \notin DOMAIN files /\ id \in DOMAIN files') => logged("proposed")
             /\ (id \in DOMAIN files /\ id \notin DOMAIN files') => logged("cleaned")]_vars

\* C18: the audit log is append-only: in every step, clean and the deletion of the
\* referenced records included, the log before the step is a prefix of the log after
\* it, so the log at any earlier state is a prefix of the log at every later state.
C18_AuditAppendOnly ==
    [][/\ Len(audit') >= Len(audit)
       /\ SubSeq(audit', 1, Len(audit)) = audit]_vars

\* a record was proposed, decided and cleaned: it is gone from the store and the log
\* still holds its 'proposed' entry, before the 'cleaned' entry that ends the log
C18_Witness ==
    /\ Len(audit) >= 3
    /\ audit[Len(audit)].event = "cleaned"
    /\ \E i \in DOMAIN audit :
          /\ audit[i].event = "proposed"
          /\ audit[i].id \notin DOMAIN files
          /\ audit[Len(audit)].id = audit[i].id

Min(a, b) == IF a < b THEN a ELSE b

\* C19: readAuditLog(limit) returns, for every limit >= 0 and a log of n entries,
\* exactly the min(limit, n) most recently appended entries in reverse order of
\* appending, and the empty sequence when there is no log.
C19_ReadAuditLog ==
    \A limit \in 0..(Len(audit) + 1) :
        LET n == Len(audit)
            read == readAuditLog(audit, limit)
        IN /\ Len(read) = Min(limit, n)
           /\ \A j \in DOMAIN read : read[j] = audit[n + 1 - j]

\* the actors of an approveAndExecute call: two people
Approvers == {"alice", "bob"}

\* C20: for every record its audit entries are appended in lifecycle order: every
\* 'executed' entry is preceded by an 'approved' entry of the same id, and every
\* 'approved' entry by a 'proposed' entry of the same id; and after propose followed
\* by approveAndExecute the log read most-recent-first shows executed, then approved,
\* then proposed for that id, the executed entry's actor being the approver.
C20_AuditLifecycleOrder ==
    /\ \A k \in DOMAIN audit :
          /\ audit[k].event = "executed"
                => \E j \in 1..(k - 1) : /\ audit[j].event = "approved"
                                         /\ audit[j].id = audit[k].id
                                         /\ audit[j].actor = audit[k].actor
          /\ audit[k].event = "approved"
                => \E i \in 1..(k - 1) : /\ audit[i].event = "proposed"
                                         /\ audit[i].id = audit[k].id
    /\ \A s \in Summaries, p \in Proposals, d \in RandomDraws, actor \in Approvers :
          LET proposed == propose(TheWorld, s, p.commands, p.options, d, now)
              r == approveAndExecute(proposed.w, proposed.ret.id, actor, now)
              read == readAuditLog(r.w.audit, 3)
          IN /\ r.err = NoError
             /\ Len(r.w.audit) = Len(audit) + 3
             /\ read[1].event = "executed" /\ read[1].id = proposed.ret.id
             /\ read[2].event = "approved" /\ read[2].id = proposed.ret.id
             /\ read[3].event = "proposed" /\ read[3].id = proposed.ret.id
             /\ read[1].actor = actor
             /\ read[2].actor = actor

\* after earlier history a record was proposed, approved and executed: the three
\* newest entries of the log are its executed, approved and proposed entries, and the
\* record was executed later than it was proposed
C20_Witness ==
    /\ Len(audit) > 3
    /\ LET read == readAuditLog(audit, 3)
       IN /\ read[1].event = "executed"
          /\ read[2].event = "approved"
          /\ read[3].event = "proposed"
          /\ read[1].id = read[3].id /\ read[2].id = read[3].id
          /\ read[1].actor = "alice"
          /\ read[3].ts < read[1].ts

\* appendFileSync threw (audit.jsonl cannot be written)
AuditWriteFailed == [kind |-> "AuditWriteFailed"]

\* the writes of a call that appends before it saves
writesAuditFirst(w, r) ==
    [j \in 1..(Len(r.w.audit) - Len(w.audit)) |->
        [op |-> "appendAuditLog", entry |-> r.w.audit[Len(w.audit) + j]]]
    \o [j \in 1..(Len(r.w.ran) - Len(w.ran)) |->
           [op |-> "execSync", run |-> r.w.ran[Len(w.ran) + j]]]
    \o (IF r.w.audit = w.audit THEN <<>>
        ELSE <<[op |-> "saveApproval",
                approval |-> r.w.files[r.w.audit[Len(w.audit) + 1].id]]>>)

\* the writes of a propose, approve, deny or execute call that took w to r.w, in the
\* order of the statements that make them: the execSync calls of the command loop,
\* then saveApproval of the record, then appendAuditLog of the entry
writes(w, r) ==
    [j \in 1..(Len(r.w.ran) - Len(w.ran)) |->
        [op |-> "execSync", run |-> r.w.ran[Len(w.ran) + j]]]
    \o (IF r.w.audit = w.audit THEN <<>>
        ELSE <<[op |-> "saveApproval",
                approval |-> r.w.files[r.w.audit[Len(w.audit) + 1].id]]>>)
    \o [j \in 1..(Len(r.w.audit) - Len(w.audit)) |->
           [op |-> "appendAuditLog", entry |-> r.w.audit[Len(w.audit) + j]]]

\* the call making the writes ws from the i-th on, one after the other; an
\* appendAuditLog throws when the log cannot be written, which ends the call
RECURSIVE perform(_, _, _, _)
perform(w, ws, i, logWritable) ==
    IF i > Len(ws)
    THEN Return(w, Null)
    ELSE CASE ws[i].op = "execSync" ->
                  perform(World(w.files, w.audit, Append(w.ran, ws[i].run)),
                          ws, i + 1, logWritable)
           [] ws[i].op = "saveApproval" ->
                  perform(World(saveApproval(w.files, ws[i].approval), w.audit, w.ran),
                          ws, i + 1, logWritable)
           [] ws[i].op = "appendAuditLog" ->
                  IF logWritable
                  THEN perform(World(w.files, appendAuditLog(w.audit, ws[i].entry), w.ran),
                               ws, i + 1, logWritable)
                  ELSE Throw(w, AuditWriteFailed)

\* the outcomes of the propose, approve, deny and execute calls that can be made now
SingleCalls ==
    {propose(TheWorld, s, p.commands, p.options, d, now) :
        s \in Summaries, p \in Proposals, d \in RandomDraws}
    \cup {approve(TheWorld, id, actor, now) : id \in CallIds, actor \in Actors}
    \cup {deny(TheWorld, id, actor, now) : id \in CallIds, actor \in Actors}
    \cup {execute(TheWorld, id, now) : id \in CallIds}

C22_StatsReadOnly ==
    [][\A d \in Dirents : CallStats(d) => (files' = files /\ audit' = audit)]_vars

\* C23: an approve, deny or execute call that fails with NotFound (no record for the
\* id) or InvalidTransition (status not valid for the operation) has no side effect:
\* every stored record, the audit log and the commands run are the same before and
\* after the call.
C23_FailedCallsNoEffect ==
    \A id \in CallIds, actor \in Actors :
        LET a == approve(TheWorld, id, actor, now)
            n == deny(TheWorld, id, actor, now)
            x == execute(TheWorld, id, now)
            rejected(r) == r.err.kind \in {"NotFound", "InvalidTransition"}
        IN /\ rejected(a) => a.w = TheWorld
           /\ rejected(n) => n.w = TheWorld
           /\ rejected(x) => x.w = TheWorld
           /\ ~IsStored(id) => /\ a.err.kind = "NotFound"
                               /\ n.err.kind = "NotFound"
                               /\ x.err.kind = "NotFound"
           /\ (IsStored(id) /\ Stored(id).status # "pending")
                 => a.err.kind = "InvalidTransition" /\ n.err.kind = "InvalidTransition"
           /\ (IsStored(id) /\ Stored(id).status # "approved")
                 => x.err.kind = "InvalidTransition"

\* the store holds an executed record and lacks another id: approve, deny and execute
\* fail with InvalidTransition on the first and with NotFound on the second
C23_Witness ==
    \E id \in DOMAIN files, missing \in IdSpace \ DOMAIN files :
        /\ files[id].status = "executed"
        /\ approve(TheWorld, id, "alice", now).err.kind = "InvalidTransition"
        /\ deny(TheWorld, id, "alice", now).err.kind = "InvalidTransition"
        /\ execute(TheWorld, id, now).err.kind = "InvalidTransition"
        /\ approve(TheWorld, missing, "alice", now).err.kind = "NotFound"
        /\ deny(TheWorld, missing, "alice", now).err.kind = "NotFound"
        /\ execute(TheWorld, missing, now).err.kind = "NotFound"

\* C24: immediately after propose(summary, commands, options) the returned record has
\* status 'pending', the store holds that record under its id (load(id) returns it,
\* with the given summary and commands), and exactly one audit entry has been
\* appended, a 'proposed' entry for that id.
C24_ProposeStoresPending ==
    \A s \in Summaries, p \in Proposals, d \in RandomDraws :
        LET r == propose(TheWorld, s, p.commands, p.options, d, now)
            new == Appended(r.w.audit, Len(audit))
        IN /\ r.err = NoError
           /\ r.ret.status = "pending"
           /\ r.ret.summary = s
           /\ r.ret.commands = p.commands
           /\ r.ret.createdAt = now
           /\ loadApproval(r.w.files, r.ret.id) = r.ret
           /\ \A id \in DOMAIN files : id # r.ret.id => loadApproval(r.w.files, id) = files[id]
           /\ SubSeq(r.w.audit, 1, Len(audit)) = audit
           /\ Len(new) = 1
           /\ new[1].event = "proposed"
           /\ new[1].id = r.ret.id
           /\ r.w.ran = ran

\* a propose was the last call to log: the log ends with its 'proposed' entry, after
\* earlier history, and the store holds the pending record it names, created at the
\* time of the entry
C24_Witness ==
    /\ Len(audit) > 1
    /\ LET e == audit[Len(audit)]
       IN /\ e.event = "proposed"
          /\ e.id \in DOMAIN files
          /\ files[e.id].status = "pending"
          /\ files[e.id].createdAt = e.ts
          /\ files[e.id].commands = e.details.commands
          /\ \A i \in 1..(Len(audit) - 1) : audit[i].id # e.id

\* the unambiguous alphabet: A-Z and 2-9 without I, O, 0 and 1
UnambiguousAlphabet ==
    {"A", "B", "C", "D", "E", "F", "G", "H", "J", "K", "L", "M", "N", "P", "Q", "R", "S",
     "T", "U", "V", "W", "X", "Y", "Z", "2", "3", "4", "5", "6", "7", "8", "9"}

\* C25: the id of every record returned by propose (the id of every 'proposed' entry
\* of the log) has the fixed length of 8 characters, each drawn from the unambiguous
\* alphabet A-Z and 2-9 without I, O, 0 and 1.
C25_IdEightCharacters ==
    \A k \in DOMAIN audit :
        audit[k].event = "proposed"
        => /\ Len(audit[k].id) = 8
           /\ \A i \in DOMAIN audit[k].id : audit[k].id[i] \in UnambiguousAlphabet

\* C26: after an approve call has failed with Expired and flipped the record to
\* 'expired', a further approve on the same id fails with InvalidTransition (the status
\* is no longer pending), not with Expired, and appends no further 'expired' entry.
C26_ApproveAfterExpired ==
    \A id \in CallIds, actor \in Actors :
        /\ (IsStored(id) /\ Stored(id).status = "pending" /\ Stored(id).expiresAt < now)
              => LET first == approve(TheWorld, id, actor, now)
                     second == approve(first.w, id, actor, now)
                 IN /\ first.err.kind = "Expired"
                    /\ second.err = InvalidTransition(id, "expired", "pending")
                    /\ second.w = first.w
        /\ (IsStored(id) /\ Stored(id).status = "expired")
              => LET again == approve(TheWorld, id, actor, now)
                 IN /\ again.err.kind = "InvalidTransition"
                    /\ again.w = TheWorld

\* an approve has failed with Expired on a record (the log ends with its 'expired'
\* entry and the record is stored expired), and approve on it now fails with
\* InvalidTransition
C26_Witness ==
    /\ audit # <<>>
    /\ LET e == audit[Len(audit)]
       IN /\ e.event = "expired"
          /\ e.id \in DOMAIN files
          /\ files[e.id].status = "expired"
          /\ approve(TheWorld, e.id, "alice", now).err.kind = "InvalidTransition"
          /\ approve(TheWorld, e.id, "alice", now).w.audit = audit

\* the fields populated as the state machine advances
StampFields ==
    {"approvedAt", "approvedBy", "deniedAt", "deniedBy", "executedAt", "result", "error"}

\* C27: the fields approvedAt, approvedBy, deniedAt, deniedBy, executedAt, result and
\* error of a stored record are never retracted: once one of them is set for an id,
\* every later stored version of that id carries the same value, until the record is
\* deleted by clean.
C27_StampsNeverRetracted ==
    [][\A id \in DOMAIN files :
          id \in DOMAIN files'
          => \A f \in StampFields :
                Has(files[id], f) => /\ Has(files'[id], f)
                                     /\ files'[id][f] = files[id][f]]_vars

\* C28: command failures are data, not errors: execute on an approved record never
\* fails because a command failed; every command runs, in order, also after a failed
\* one; the call returns the record, persists it with a post-execution status, and
\* appends one 'executed' audit entry.
C28_CommandFailuresAreData ==
    \A id \in CallIds :
        (IsStored(id) /\ Stored(id).status = "approved")
        => LET r == execute(TheWorld, id, now)
               cmds == Stored(id).commands
               failed == {k \in DOMAIN cmds : ~execSync(cmds[k]).ok}
               new == Appended(r.w.audit, Len(audit))
           IN /\ r.err = NoError
              /\ r.ret = loadApproval(r.w.files, Stored(id).id)
              /\ r.ret.status \in {"executed", "partial", "failed"}
              /\ r.ret.executedAt = now
              /\ r.w.ran = ran \o [k \in DOMAIN cmds |-> <<Stored(id).id, cmds[k]>>]
              /\ Len(r.ret.result) = Len(cmds) - Cardinality(failed)
              /\ Has(r.ret, "error") <=> failed # {}
              /\ failed # {} => Len(r.ret.error) = Cardinality(failed)
              /\ Len(new) = 1
              /\ new[1].event = "executed"
              /\ new[1].id = Stored(id).id
              /\ new[1].details.hasErrors = (failed # {})

\* a record whose second command fails was executed: its three commands ran, the one
\* after the failure included, and it is stored with a post-execution status, a result
\* block of two outputs and an error block of one failure
C28_Witness ==
    \E id \in DOMAIN files :
        /\ Has(files[id], "executedAt")
        /\ files[id].commands = <<"echo ok", "exit 1", "echo ok2">>
        /\ files[id].status \in {"executed", "partial", "failed"}
        /\ Len(files[id].result) = 2
        /\ Has(files[id], "error") /\ Len(files[id].error) = 1
        /\ \E k \in DOMAIN ran : ran[k] = <<id, "echo ok2">>
        /\ audit[Len(audit)].event = "executed"
        /\ audit[Len(audit)].details.hasErrors

\* the stored ids whose file parses
Parseable == {id \in DOMAIN files : files[id] # Unparseable}

\* C29: a stored record file that fails to parse is treated as absent: load returns
\* not-found for it, approve, deny and execute on its id fail with NotFound without
\* rewriting the file, and list skips it while still returning every other record.
C29_UnparseableIsAbsent ==
    /\ \A id \in CallIds, actor \in Actors :
          (toUpperCase(id) \in DOMAIN files /\ files[toUpperCase(id)] = Unparseable)
          => /\ loadApproval(files, toUpperCase(id)) = Null
             /\ approve(TheWorld, id, actor, now).err.kind = "NotFound"
             /\ approve(TheWorld, id, actor, now).w = TheWorld
             /\ deny(TheWorld, id, actor, now).err.kind = "NotFound"
             /\ deny(TheWorld, id, actor, now).w = TheWorld
             /\ execute(TheWorld, id, now).err.kind = "NotFound"
             /\ execute(TheWorld, id, now).w = TheWorld
    /\ \A includeAll \in BOOLEAN, d \in Dirents :
          LET r == listApprovals(TheWorld, includeAll, d, now)
          IN /\ r.err = NoError
             /\ DOMAIN r.w.files = DOMAIN files
             /\ \A id \in DOMAIN files \ Parseable : r.w.files[id] = Unparseable
             /\ IdsOf(r.ret) \subseteq Parseable
             /\ includeAll => IdsOf(r.ret) = Parseable
             /\ ~includeAll =>
                   IdsOf(r.ret) = {id \in Parseable : /\ files[id].status = "pending"
                                                      /\ ~(files[id].expiresAt < now)}
             /\ Len(r.ret) = Cardinality(IdsOf(r.ret))

\* the store holds a file that does not parse and a pending record: read with the bad
\* file first, list returns the pending record alone, and approve on the bad file's id
\* fails with NotFound
C29_Witness ==
    \E bad, good \in DOMAIN files :
        /\ files[bad] = Unparseable
        /\ files[good] # Unparseable
        /\ files[good].status = "pending"
        /\ listApprovals(TheWorld, FALSE, <<bad, good>>, now).ret = <<files[good]>>
        /\ listApprovals(TheWorld, TRUE, <<bad, good>>, now).ret = <<files[good]>>
        /\ approve(TheWorld, bad, "alice", now).err.kind = "NotFound"

\* C30: every record created through an exposed entry point (agent tool 'propose',
\* gateway method 'approvals.propose', CLI 'propose') has a non-empty commands
\* sequence, so no stored record ever has zero commands.
C30_CommandsNonEmpty ==
    \A id \in DOMAIN files : Len(files[id].commands) > 0

\* C33: the expiry check of approve is inclusive: approve called on a pending record
\* at a time now >= expiresAt, in particular at now = expiresAt, flips the record to
\* 'expired' and fails with Expired instead of approving.
C33_ApproveExpiryInclusive ==
    [][\A id \in CallIds, actor \in Actors :
          (/\ CallApprove(id, actor)
           /\ IsStored(id)
           /\ Stored(id).status = "pending"
           /\ now >= Stored(id).expiresAt)
          => /\ approve(TheWorld, id, actor, now).err.kind = "Expired"
             /\ files'[Stored(id).id].status = "expired"]_vars

\* the runs of the log runs that belong to id, in order
RunsOf(runs, id) == SelectSeq(runs, LAMBDA x : x[1] = id)

\* C34: execute runs the commands of the record sequentially in list order, each
\* exactly once; a failing command does not stop the run, so every later command is
\* still run; and execute ends after the last command with the record no longer in
\* status 'approved'.
C34_CommandsRunInOrder ==
    \A id \in CallIds :
        (IsStored(id) /\ Stored(id).status = "approved")
        => LET r == execute(TheWorld, id, now)
               rid == Stored(id).id
               cmds == Stored(id).commands
               new == Appended(r.w.ran, Len(ran))
           IN /\ SubSeq(r.w.ran, 1, Len(ran)) = ran
              /\ Len(new) = Len(cmds)
              /\ \A k \in DOMAIN cmds : new[k] = <<rid, cmds[k]>>
              /\ \A k \in DOMAIN cmds :
                    ~execSync(cmds[k]).ok
                    => \A later \in (k + 1)..Len(cmds) : new[later] = <<rid, cmds[later]>>
              /\ r.w.files[rid].status # "approved"
              /\ execute(r.w, id, now).w.ran = r.w.ran

\* the record with the commands echo ok, exit 1, echo ok2 was executed: exactly these
\* three runs are logged for it, in this order, and it is no longer approved
C34_Witness ==
    \E id \in DOMAIN files :
        /\ files[id].commands = <<"echo ok", "exit 1", "echo ok2">>
        /\ RunsOf(ran, id) = <<<<id, "echo ok">>, <<id, "exit 1">>, <<id, "echo ok2">>>>
        /\ files[id].status \notin {"pending", "approved"}

\* the block execute records for a command: its output when it succeeded, its stderr
\* or failure message when it failed
Block(cmd) ==
    IF execSync(cmd).ok
    THEN [cmd |-> cmd, output |-> execSync(cmd).output]
    ELSE [cmd |-> cmd,
          error |-> IF execSync(cmd).stderr # "" THEN execSync(cmd).stderr
                    ELSE execSync(cmd).message]

\* C35: after execute the record's error field is set if and only if at least one
\* command failed; it holds one block per failed command in command order; result
\* holds one block per succeeded command in command order; and the 'executed' audit
\* entry has commandCount equal to the number of commands and hasErrors true exactly
\* when error is set.
C35_ResultAndErrorBlocks ==
    \A id \in CallIds :
        (IsStored(id) /\ Stored(id).status = "approved")
        => LET r == execute(TheWorld, id, now)
               after == r.w.files[Stored(id).id]
               cmds == Stored(id).commands
               ok == {k \in DOMAIN cmds : execSync(cmds[k]).ok}
               failed == DOMAIN cmds \ ok
               entry == r.w.audit[Len(r.w.audit)]
           IN /\ Has(after, "error") <=> failed # {}
              /\ failed # {}
                    => after.error = PickAt([k \in DOMAIN cmds |-> Block(cmds[k])], failed)
              /\ after.result = PickAt([k \in DOMAIN cmds |-> Block(cmds[k])], ok)
              /\ entry.event = "executed"
              /\ entry.details.commandCount = Len(cmds)
              /\ entry.details.hasErrors <=> Has(after, "error")

\* two records were executed, one whose command succeeded (a result block, no error
\* field) and one whose command failed (an error block, an empty result)
C35_Witness ==
    \E a, b \in DOMAIN files :
        /\ Has(files[a], "executedAt") /\ Has(files[b], "executedAt")
        /\ files[a].result = <<[cmd |-> "echo ok", output |-> "ok"]>>
        /\ ~Has(files[a], "error")
        /\ files[b].result = <<>>
        /\ files[b].error = <<[cmd |-> "exit 1", error |-> "Command failed: exit 1"]>>

\* the ids of a list of records, in the order of the list
IdSeq(list) == [j \in DOMAIN list |-> list[j].id]

C37_ExpiresAtIsCreatedAtPlusTtl ==
    [][LET ttl(params) == IF Has(params, "expiryMinutes")
                          THEN params.expiryMinutes * MsPerMinute
                          ELSE DEFAULT_EXPIRY_MS
       IN /\ \A params \in EntryParams, d \in RandomDraws :
                /\ (CallToolPropose(params, d)
                    /\ toolPropose(TheWorld, params, d, now).err = NoError)
                   => /\ files'[generateId(d)].createdAt = now
                      /\ files'[generateId(d)].expiresAt = now + ttl(params)
                /\ CallRpcPropose(params, d)
                   => /\ files'[generateId(d)].createdAt = now
                      /\ files'[generateId(d)].expiresAt = now + ttl(params)
          /\ \A s \in Summaries, opts \in CliOpts, d \in RandomDraws :
                CallCliPropose(s, opts, d)
                => /\ files'[generateId(d)].createdAt = now
                   /\ files'[generateId(d)].expiresAt = now + DEFAULT_EXPIRY_MS]_vars

\* the number of commands the 'executed' entries of the log report for id
CommandsLogged(log, id) ==
    LET F[i \in 0..Len(log)] ==
            IF i = 0 THEN 0
            ELSE IF log[i].event = "executed" /\ log[i].id = id
            THEN F[i - 1] + log[i].details.commandCount
            ELSE F[i - 1]
    IN F[Len(log)]

\* C38: the commands of one proposed record run at most once, whatever propose,
\* approve, deny, execute, approveAndExecute, batch, list, clean and stats calls
\* have completed: two executions of the same id are separated by a propose that
\* stored a new record under that id, every run belongs to exactly one execution,
\* and a batch whose input list names the same id twice runs its commands once and
\* puts the second occurrence in the errors list.
C38_CommandsRunAtMostOnce ==
    /\ \A i, j \in DOMAIN audit :
          (/\ i < j
           /\ audit[i].event = "executed" /\ audit[j].event = "executed"
           /\ audit[i].id = audit[j].id)
          => \E k \in (i + 1)..(j - 1) :
                audit[k].event = "proposed" /\ audit[k].id = audit[i].id
    /\ \A id \in IdSpace : Len(RunsOf(ran, id)) = CommandsLogged(audit, id)
    /\ \A id \in DOMAIN files :
          files[id].status = "executed"
          => /\ execute(TheWorld, id, now).err.kind = "InvalidTransition"
             /\ execute(TheWorld, id, now).w = TheWorld
             /\ approveAndExecute(TheWorld, id, "alice", now).w.ran = ran
    /\ \A id \in Parseable, actor \in Actors :
          LET r == batchApprove(TheWorld, Ids(<<id, id>>), actor, <<>>, now)
              once == approveAndExecute(TheWorld, id, actor, now)
          IN /\ r.w.ran = once.w.ran
             /\ Len(r.ret.errors) >= 1
             /\ r.ret.errors[Len(r.ret.errors)].id = id
             /\ Len(r.ret.approved) <= 1
             /\ Len(RunsOf(r.w.ran, id)) <= Len(RunsOf(ran, id)) + Len(files[id].commands)

\* a record of three commands has just been executed and the log of runs holds
\* three runs for its id: each command has run one time
C38_Witness ==
    \E id \in DOMAIN files :
        /\ files[id].status = "executed"
        /\ Len(files[id].commands) = 3
        /\ Len(RunsOf(ran, id)) = 3
        /\ \E i \in DOMAIN audit :
              /\ audit[i].event = "executed" /\ audit[i].id = id
              /\ i = Len(audit)

\* C39: in every reachable store state the stamps of each record agree with its
\* status: status approved, executed, partial or failed implies approvedAt is set and
\* deniedAt is unset; executedAt and result are set exactly when the status is
\* executed, partial or failed; status denied implies deniedAt is set and approvedAt,
\* executedAt and result are unset; status pending implies none of these is set.
C39_StampsAgreeWithStatus ==
    \A id \in DOMAIN files :
        LET a == files[id]
            outcomes == {"executed", "partial", "failed"}
        IN /\ a.status \in {"approved"} \cup outcomes
              => Has(a, "approvedAt") /\ ~ Has(a, "deniedAt")
           /\ Has(a, "executedAt") <=> a.status \in outcomes
           /\ Has(a, "result") <=> a.status \in outcomes
           /\ a.status = "denied"
              => /\ Has(a, "deniedAt")
                 /\ ~ Has(a, "approvedAt")
                 /\ ~ Has(a, "executedAt")
                 /\ ~ Has(a, "result")
           /\ a.status = "pending"
              => /\ ~ Has(a, "approvedAt") /\ ~ Has(a, "deniedAt")
                 /\ ~ Has(a, "executedAt") /\ ~ Has(a, "result")

\* the store holds an approved record and a denied one, each with its own stamp
C39_Witness ==
    \E a, b \in DOMAIN files :
        /\ files[a].status = "approved" /\ Has(files[a], "approvedAt")
        /\ files[b].status = "denied" /\ Has(files[b], "deniedAt")

\* the store after the call differs from dir at most in the record of id
ChangesOnly(r, dir, id) ==
    /\ DOMAIN r.w.files = DOMAIN dir
    /\ \A other \in DOMAIN dir : other # toUpperCase(id) => r.w.files[other] = dir[other]

\* C40: approve(id), deny(id) and execute(id) change at most the stored record of
\* the given id: every stored record with a different id is unchanged by the call,
\* whether the call succeeds or fails, and no record is created or deleted by it.
C40_OtherRecordsUntouched ==
    \A id \in CallIds, actor \in Actors :
        /\ ChangesOnly(approve(TheWorld, id, actor, now), files, id)
        /\ ChangesOnly(deny(TheWorld, id, actor, now), files, id)
        /\ ChangesOnly(execute(TheWorld, id, now), files, id)
        /\ \A r \in {approve(TheWorld, id, actor, now), deny(TheWorld, id, actor, now),
                      execute(TheWorld, id, now)} :
              toUpperCase(id) \notin DOMAIN files => r.w.files = files

\* two records are stored and a deny has acted on one of them; the other is still
\* pending, and approve and deny would succeed on it while execute would fail
C40_Witness ==
    \E a, b \in DOMAIN files :
        /\ a # b
        /\ files[a].status = "pending" /\ files[b].status = "denied"
        /\ approve(TheWorld, a, "alice", now).err = NoError
        /\ deny(TheWorld, a, "alice", now).w.files[a].status = "denied"
        /\ execute(TheWorld, a, now).err # NoError
        /\ execute(TheWorld, b, now).err # NoError

\* the sum of the counts of byStatus
RECURSIVE SumOf(_)
SumOf(byStatus) ==
    IF DOMAIN byStatus = {} THEN 0
    ELSE LET s == CHOOSE x \in DOMAIN byStatus : TRUE
         IN byStatus[s] + SumOf([x \in DOMAIN byStatus \ {s} |-> byStatus[x]])

\* the values of the field status
Statuses == {"pending", "approved", "denied", "executed", "expired"}

WholeRecord(a) ==
    LET others(own) == {f \in StampFields \ own : Has(a, f)}
    IN \/ a.status \in {"pending", "expired"} /\ others({}) = {}
       \/ /\ a.status = "approved"
          /\ Has(a, "approvedAt")
          /\ others({"approvedAt", "approvedBy"}) = {}
       \/ /\ a.status = "denied"
          /\ Has(a, "deniedAt")
          /\ others({"deniedAt", "deniedBy"}) = {}
       \/ /\ a.status = "executed"
          /\ Has(a, "approvedAt") /\ Has(a, "executedAt") /\ Has(a, "result")
          /\ others({"approvedAt", "approvedBy", "executedAt", "result", "error"}) = {}

\* C31: when operations of two callers on the same record interleave at the
\* granularity of whole file reads and writes, the stored record is always a complete
\* record written by one of them (last write wins): no reachable stored state mixes
\* fields of the two writers, in particular no stored record has both approvedAt
\* and deniedAt set.
C31_LastWriteWins ==
    /\ \A id \in DOMAIN files :
          /\ WholeRecord(files[id])
          /\ ~ (Has(files[id], "approvedAt") /\ Has(files[id], "deniedAt"))
    /\ \A c \in Callers :
          calls[c].phase = "loaded"
          => LET read == calls[c].approval
                 written == Written(c).w.files[read.id]
             IN /\ WholeRecord(written)
                /\ DOMAIN read \subseteq DOMAIN written
                /\ \A f \in DOMAIN read \ {"status"} : written[f] = read[f]
                /\ \A f \in DOMAIN written \ DOMAIN read : f \in StampFields
                /\ \A other \in DOMAIN files :
                      other # read.id => Written(c).w.files[other] = files[other]

\* the two callers both read the record while it was pending; one approved it and
\* the other then denied it: the record is stored as denied, by the last writer
C31_Witness ==
    \E id \in DOMAIN files :
        /\ files[id].status = "denied"
        /\ ~ Has(files[id], "approvedAt")
        /\ Cardinality({i \in DOMAIN audit : audit[i].event = "proposed"}) = 1
        /\ \E i, j \in DOMAIN audit :
              /\ i < j
              /\ audit[i].event = "approved" /\ audit[i].id = id
              /\ audit[j].event = "denied" /\ audit[j].id = id

============================================================================
